---------------------------- MODULE Spec2Model ----------------------------
(***************************************************************************)
(* A model of AgriculturalDataManager (src/src/data_manager.py) and of the *)
(* callers that change its tables (src/src/map_visualization.py).          *)
(*                                                                         *)
(* Tables (pandas DataFrames) are records                                  *)
(*    [index   : "range" or "date"   what the index is                     *)
(*     columns : the set of column names                                   *)
(*     rows    : the sequence of rows, each a record of cell values]       *)
(* A row keeps its date whether `date` is a column or the index; `index`   *)
(* and `columns` say where it lives.                                       *)
(*                                                                         *)
(* Floating-point cells are exact rationals [num, den] with den > 0; the   *)
(* null value NaN is [num |-> 0, den |-> 0].  Timestamps are minutes since *)
(* the epoch of the model (day 0, 00:00).                                  *)
(***************************************************************************)
EXTENDS Integers, Sequences, FiniteSets, TLC

VARIABLES
    files,            \* the four CSV inputs on disk
    pc,               \* "new" before load_data, "loaded" after
    monitoring_data,  \* self.monitoring_data
    weather_data,     \* self.weather_data
    soil_data,        \* self.soil_data
    yield_history,    \* self.yield_history
    merged,           \* local `features` of prepare_features before gap filling
    features,         \* the table returned by the last prepare_features
    report,           \* what _verify_temporal_consistency printed last
    outcome,          \* "none", "ok", or the exception the last call raised
    op,               \* the last operation called
    returned,         \* what the last risk or pattern analysis call returned
    argument,         \* the parcelle_id the last call was given, if any
    snapshot,         \* history: the four tables right after load_data
    prev              \* history: op, outcome and features of the call before

vars == <<files, pc, monitoring_data, weather_data, soil_data, yield_history,
          merged, features, report, outcome, op, returned,
          argument, snapshot, prev>>

(***************************** bounds **************************************)
MaxRaw == 50          \* longest raw weather feed of SpecAgg (rows)
MaxDay == 2           \* monitoring days are 0..MaxDay
MaxSlice == 10        \* longest parcel slice of SpecFill (rows)
MaxValid == 3         \* most valid cells of a column of a slice of SpecFill
MaxRisk == 3          \* most rows of a parcel in the feature tables of SpecRisk
MaxYears == 3         \* most yield records of a parcel in SpecPatterns

(***************************** numbers *************************************)
MinutesPerHour == 6 * 10
MinutesPerDay == 24 * MinutesPerHour

NaN == [num |-> 0, den |-> 0]
Rat(n) == [num |-> n, den |-> 1]
IsNull(v) == v.den = 0
NotNull(v) == v.den # 0

Abs(n) == IF n < 0 THEN -n ELSE n
LeastOfSet(S) == CHOOSE x \in S : \A y \in S : x <= y
GreatestOfSet(S) == CHOOSE x \in S : \A y \in S : y <= x
Min(a, b) == IF a <= b THEN a ELSE b

\* a sequence given as a function, as the tuple of its values
Rows(f) == SubSeq(f, 1, Len(f))

\* a row given as a function, as the record of its cells
Cells(f) == f @@ <<>>

RECURSIVE GCD(_, _)
GCD(a, b) == IF b = 0 THEN a ELSE GCD(b, a % b)

\* the float n/d, in lowest terms; 0/0 is NaN
Frac(n, d) ==
    IF d = 0 THEN NaN
    ELSE LET g == GCD(Abs(n), Abs(d))
             s == IF d < 0 THEN -1 ELSE 1
         IN  [num |-> s * (n \div g), den |-> s * (d \div g)]

RatAdd(a, b) ==
    IF IsNull(a) \/ IsNull(b) THEN NaN
    ELSE Frac(a.num * b.den + b.num * a.den, a.den * b.den)
RatSub(a, b) ==
    IF IsNull(a) \/ IsNull(b) THEN NaN
    ELSE Frac(a.num * b.den - b.num * a.den, a.den * b.den)
RatMul(a, b) ==
    IF IsNull(a) \/ IsNull(b) THEN NaN
    ELSE Frac(a.num * b.num, a.den * b.den)
RatDivInt(a, n) == IF IsNull(a) THEN NaN ELSE Frac(a.num, a.den * n)

(***************************** schemas *************************************)
\* the numeric columns of meteo_detaillee.csv, which are the carry-fill columns
columns_to_fill == {"temperature", "humidite", "precipitation",
                    "rayonnement_solaire", "vitesse_vent", "direction_vent"}
columns_to_interpolate == {"rendement_estime", "progression"}

MonitoringColumns == {"date", "parcelle_id", "latitude", "longitude",
                      "stress_hydrique", "rendement_estime", "progression",
                      "culture"}
WeatherColumns == {"date"} \cup columns_to_fill
SoilColumns == {"parcelle_id", "latitude", "longitude", "capacite_retention_eau"}
YieldColumns == {"date", "parcelle_id", "rendement_final", "culture"}

Parcels == {"P1", "P2"}
NullStr == "NaN"      \* a null cell of a text column

NoTable == [index |-> "none", columns |-> {}, rows |-> <<>>]

(***************************** load_data ***********************************)
RECURSIVE SumRat(_, _)
\* the sum of the non-null cells of column c over the rows (skipna)
SumRat(rows, c) ==
    IF rows = <<>> THEN Rat(0)
    ELSE LET v == Head(rows)[c]
             rest == SumRat(Tail(rows), c)
         IN  IF IsNull(v) THEN rest ELSE RatAdd(v, rest)

RECURSIVE CountValid(_, _)
CountValid(rows, c) ==
    IF rows = <<>> THEN 0
    ELSE (IF IsNull(Head(rows)[c]) THEN 0 ELSE 1) + CountValid(Tail(rows), c)

RECURSIVE SumDates(_)
SumDates(rows) ==
    IF rows = <<>> THEN 0 ELSE Head(rows).date + SumDates(Tail(rows))

\* Series.mean of a numeric column: NaN when no cell is valid
ColumnMean(rows, c) ==
    LET n == CountValid(rows, c)
    IN  IF n = 0 THEN NaN ELSE RatDivInt(SumRat(rows, c), n)

\* the mean of a datetime column
DateMean(rows) == SumDates(rows) \div Len(rows)

\* pd.to_datetime(ts, format="%Y-%m-%d") of a Timestamp: the argument is
\* already a Timestamp, so it is returned as it is and the format is unused
ToDatetime(ts) == ts

\* weather_data.iloc[i:i + chunk_size, :] with i counted from 0
Iloc(rows, i, n) == SubSeq(rows, i + 1, Min(i + n, Len(rows)))

chunk_size == 24

ChunkMean(chunk) ==
    Cells([c \in WeatherColumns |->
        IF c = "date" THEN ToDatetime(DateMean(chunk)) ELSE ColumnMean(chunk, c)])

RECURSIVE ResultListWholeBlocks(_, _)
\* mutant of ResultList: a trailing block of fewer than chunk_size rows is dropped
ResultListWholeBlocks(raw, i) ==
    IF i + chunk_size > Len(raw) THEN <<>>
    ELSE <<ChunkMean(Iloc(raw, i, chunk_size))>>
         \o ResultListWholeBlocks(raw, i + chunk_size)

RECURSIVE ResultList(_, _)
\* for i in range(i, len(weather_data), chunk_size): result_list.append(...)
ResultList(raw, i) ==
    IF i >= Len(raw) THEN <<>>
    ELSE <<ChunkMean(Iloc(raw, i, chunk_size))>> \o ResultList(raw, i + chunk_size)

\* pd.DataFrame(result_list): an empty list gives a frame without columns
AggregateWeather(raw) ==
    LET result_list == ResultList(raw, 0)
    IN  [index |-> "range",
         columns |-> IF result_list = <<>> THEN {} ELSE WeatherColumns,
         rows |-> result_list]

FillnaZero(v) == IF IsNull(v) THEN Rat(0) ELSE v

\* yield_history["rendement_final"].fillna(0)
LoadYield(rows) ==
    Rows([i \in 1..Len(rows) |->
        [rows[i] EXCEPT !.rendement_final = FillnaZero(@)]])

Tables == [monitoring |-> monitoring_data, weather |-> weather_data,
           soil |-> soil_data, yield |-> yield_history]

LoadData ==
    /\ pc = "new"
    /\ pc' = "loaded"
    /\ monitoring_data' = [index |-> "range", columns |-> MonitoringColumns,
                           rows |-> files.monitoring]
    /\ weather_data' = AggregateWeather(files.weather)
    /\ soil_data' = [index |-> "range", columns |-> SoilColumns,
                     rows |-> files.soil]
    /\ yield_history' = [index |-> "range", columns |-> YieldColumns,
                         rows |-> LoadYield(files.yield)]
    /\ snapshot' = Tables'
    /\ op' = "load_data"
    /\ argument' = NullStr
    /\ outcome' = "ok"
    /\ prev' = [op |-> op, outcome |-> outcome, features |-> features]
    /\ returned' = NoTable
    /\ UNCHANGED <<files, merged, features, report>>

(***************************** indices *************************************)
\* DataFrame.set_index('date', inplace=True): KeyError when there is no such
\* column; the column becomes the index and the old index is dropped
CanSetIndex(t) == "date" \in t.columns
SetIndex(t) == [t EXCEPT !.index = "date", !.columns = @ \ {"date"}]

\* the column DataFrame.reset_index inserts: the index's name, and for an
\* unnamed RangeIndex "index", or "level_0" when "index" is taken
ResetName(t) ==
    IF t.index = "date" THEN "date"
    ELSE IF "index" \notin t.columns THEN "index" ELSE "level_0"
CanResetIndex(t) == ResetName(t) \notin t.columns
ResetIndex(t) == [t EXCEPT !.index = "range", !.columns = @ \cup {ResetName(t)}]

\* _setup_temporal_indices: three set_index calls in turn; the first that
\* raises leaves the tables before it changed
SetupTemporalIndices(tabs) ==
    IF ~CanSetIndex(tabs.monitoring) THEN [err |-> "KeyError", tables |-> tabs]
    ELSE LET t1 == [tabs EXCEPT !.monitoring = SetIndex(@)]
         IN  IF ~CanSetIndex(t1.weather) THEN [err |-> "KeyError", tables |-> t1]
             ELSE LET t2 == [t1 EXCEPT !.weather = SetIndex(@)]
                  IN  IF ~CanSetIndex(t2.yield)
                      THEN [err |-> "KeyError", tables |-> t2]
                      ELSE [err |-> "ok",
                            tables |-> [t2 EXCEPT !.yield = SetIndex(@)]]

(***************************** verification ********************************)
Dates(rows) == [i \in 1..Len(rows) |-> rows[i].date]
DateSet(rows) == {rows[i].date : i \in 1..Len(rows)}
IndexMin(rows) == CHOOSE d \in DateSet(rows) : \A e \in DateSet(rows) : d <= e
IndexMax(rows) == CHOOSE d \in DateSet(rows) : \A e \in DateSet(rows) : d >= e

\* Timedelta.days: whole days, rounded towards minus infinity
TimedeltaDays(delta) == delta \div MinutesPerDay

\* pd.date_range(start, end): daily steps from start while not after end
DateRange(start, end) ==
    [i \in 1..((end - start) \div MinutesPerDay + 1) |->
        start + (i - 1) * MinutesPerDay]

NoReport == [monitoring_weather_consistent |-> FALSE,
             yield_consistent |-> FALSE, missing_dates |-> FALSE,
             printed |-> FALSE]

\* _verify_temporal_consistency; min and max of an empty index are NaT, with
\* which every comparison is false, and date_range raises on NaT
VerifyTemporalConsistency(tabs) ==
    LET m == tabs.monitoring.rows
        w == tabs.weather.rows
        y == tabs.yield.rows
        tolerance == 1
    IN  IF m = <<>> THEN [err |-> "ValueError", report |-> NoReport]
        ELSE [err |-> "ok",
              report |->
                [monitoring_weather_consistent |->
                    /\ w # <<>>
                    /\ Abs(TimedeltaDays(IndexMin(m) - IndexMin(w))) <= tolerance
                    /\ Abs(TimedeltaDays(IndexMax(m) - IndexMax(w))) <= tolerance,
                 yield_consistent |->
                    /\ y # <<>>
                    /\ IndexMin(y) >= IndexMin(m)
                    /\ IndexMax(y) <= IndexMax(m),
                 missing_dates |->
                    Dates(m) # DateRange(IndexMin(m), IndexMax(m)),
                 printed |-> TRUE]]

(***************************** feature merger ******************************)
RECURSIVE InsertByDate(_, _)
InsertByDate(r, s) ==
    IF s = <<>> THEN <<r>>
    ELSE IF Head(s).date <= r.date THEN <<Head(s)>> \o InsertByDate(r, Tail(s))
    ELSE <<r>> \o s

RECURSIVE SortIndex(_)
\* DataFrame.sort_index() on a date index; rows of equal date keep their order
SortIndex(rows) ==
    IF rows = <<>> THEN <<>>
    ELSE InsertByDate(rows[Len(rows)], SortIndex(SubSeq(rows, 1, Len(rows) - 1)))

\* a merge's columns: a column of both sides that is not a key gets _x and _y
Suffixed(c, s) == c \o s
MergeColumns(lc, rc, keys) ==
    LET both == (lc \cap rc) \ keys
    IN  (lc \ both) \cup (rc \ both)
        \cup {Suffixed(c, "_x") : c \in both} \cup {Suffixed(c, "_y") : c \in both}

NullWeather == [c \in columns_to_fill |-> NaN]
WeatherFields(w) == [c \in columns_to_fill |-> w[c]]

RECURSIVE AsofAdvanceStrict(_, _, _)
\* mutant of AsofAdvance: a right key equal to the left key is not a match
AsofAdvanceStrict(right, pos, key) ==
    IF pos < Len(right) /\ right[pos + 1].date < key
    THEN AsofAdvanceStrict(right, pos + 1, key)
    ELSE pos

RECURSIVE AsofAdvance(_, _, _)
\* the right position moves on while the next right key is <= the left key
AsofAdvance(right, pos, key) ==
    IF pos < Len(right) /\ right[pos + 1].date <= key
    THEN AsofAdvance(right, pos + 1, key)
    ELSE pos

RECURSIVE AsofRows(_, _, _)
\* pd.merge_asof, direction backward, exact matches allowed: both sides are
\* sorted, one pass; a left row with nothing at or before it gets nulls
AsofRows(left, right, pos) ==
    IF left = <<>> THEN <<>>
    ELSE LET p == AsofAdvance(right, pos, Head(left).date)
             w == IF p = 0 THEN NullWeather ELSE WeatherFields(right[p])
         IN  <<Head(left) @@ w>> \o AsofRows(Tail(left), right, p)

MergeAsof(mon, wea) ==
    [index |-> "date",
     columns |-> MergeColumns(mon.columns, wea.columns, {}),
     rows |-> AsofRows(SortIndex(mon.rows), SortIndex(wea.rows), 0)]

RECURSIVE Flatten(_)
Flatten(ss) == IF ss = <<>> THEN <<>> ELSE Head(ss) \o Flatten(Tail(ss))

soil_keys == {"parcelle_id", "latitude", "longitude"}
SoilMatch(l, s) ==
    /\ l.parcelle_id = s.parcelle_id
    /\ l.latitude = s.latitude
    /\ l.longitude = s.longitude

\* mutant of SoilMergeRows: an inner join, a row without soil record is dropped
SoilMergeRowsInner(left, soil) ==
    Flatten([i \in 1..Len(left) |->
        LET hits == SelectSeq(soil, LAMBDA s : SoilMatch(left[i], s))
        IN  [k \in 1..Len(hits) |->
                left[i] @@ [capacite_retention_eau |->
                                hits[k].capacite_retention_eau]]])

\* combined_1.merge(soil_data, how='left', on=[...]): the left rows in order,
\* one output row per matching soil row, and one with nulls when none matches
SoilMergeRows(left, soil) ==
    Flatten([i \in 1..Len(left) |->
        LET hits == SelectSeq(soil, LAMBDA s : SoilMatch(left[i], s))
        IN  IF hits = <<>>
            THEN <<left[i] @@ [capacite_retention_eau |-> NaN]>>
            ELSE [k \in 1..Len(hits) |->
                    left[i] @@ [capacite_retention_eau |->
                                    hits[k].capacite_retention_eau]]])

yield_keys == {"date", "parcelle_id"}
YieldMatch(l, y) == l.date = y.date /\ l.parcelle_id = y.parcelle_id

\* pd.merge(data.drop(columns=['culture']), yield_history, how='left',
\* on=['date', 'parcelle_id']): culture and rendement_final are the yield
\* record's, null when no yield record matches
YieldMergeRows(left, yld) ==
    Flatten([i \in 1..Len(left) |->
        LET hits == SelectSeq(yld, LAMBDA y : YieldMatch(left[i], y))
            data == [c \in (DOMAIN left[i]) \ {"culture"} |-> left[i][c]]
        IN  IF hits = <<>>
            THEN <<data @@ [culture |-> NullStr, rendement_final |-> NaN]>>
            ELSE [k \in 1..Len(hits) |->
                    data @@ [culture |-> hits[k].culture,
                             rendement_final |-> hits[k].rendement_final]]])

\* _enrich_with_yield_history; KeyError when data has no culture column,
\* ValueError when set_index(data.index) gets an index of another length
EnrichWithYieldHistory(data, yld) ==
    IF "culture" \notin data.columns THEN [err |-> "KeyError", table |-> NoTable]
    ELSE LET rows == YieldMergeRows(data.rows, yld.rows)
         IN  IF Len(rows) # Len(data.rows)
             THEN [err |-> "ValueError", table |-> NoTable]
             ELSE [err |-> "ok",
                   table |-> [index |-> "date",
                              columns |-> MergeColumns(data.columns \ {"culture"},
                                                       yld.columns, yield_keys),
                              rows |-> rows]]

\* lines 134-146 of prepare_features: the three joins
MergeFeatures(tabs) ==
    LET combined_1 == MergeAsof(tabs.monitoring, tabs.weather)
    IN  IF ~(soil_keys \subseteq combined_1.columns
             /\ soil_keys \subseteq tabs.soil.columns)
        THEN [err |-> "KeyError", table |-> NoTable]
        ELSE LET rows2 == SoilMergeRows(combined_1.rows, tabs.soil.rows)
                 combined_2 ==
                    [index |-> "date",
                     columns |-> MergeColumns(combined_1.columns,
                                              tabs.soil.columns, soil_keys),
                     rows |-> rows2]
             IN  IF Len(rows2) # Len(combined_1.rows)
                 THEN [err |-> "ValueError", table |-> NoTable]
                 ELSE EnrichWithYieldHistory(combined_2, tabs.yield)

(***************************** gap filler **********************************)
RECURSIVE Bfill(_)
\* Series.fillna(method='bfill'): a null takes the next valid value
Bfill(col) ==
    IF col = <<>> THEN <<>>
    ELSE LET rest == Bfill(Tail(col))
         IN  IF IsNull(Head(col)) /\ rest # <<>>
             THEN <<Head(rest)>> \o rest
             ELSE <<Head(col)>> \o rest

\* mutant of Ffill: the forward fill is left out
FfillSkipped(col) == col

RECURSIVE Ffill(_)
\* Series.fillna(method='ffill'): a null takes the last valid value
Ffill(col) ==
    IF col = <<>> THEN <<>>
    ELSE LET n == Len(col)
             front == Ffill(SubSeq(col, 1, n - 1))
         IN  IF IsNull(col[n]) /\ n > 1
             THEN Append(front, front[n - 1])
             ELSE Append(front, col[n])

\* mutant of CarryFill: forward first, then backward
CarryFillForwardFirst(col) == Bfill(Ffill(col))

\* parcelle_data[columns_to_fill].fillna(method='bfill').fillna(method='ffill')
CarryFill(col) == Ffill(Bfill(col))

\* mutant of Interpolate: forward only, the nulls before the first valid
\* value stay null
InterpolateForwardOnly(col) ==
    Rows([p \in 1..Len(col) |->
        IF NotNull(col[p]) THEN col[p]
        ELSE LET before == {i \in 1..(p - 1) : NotNull(col[i])}
                 after == {j \in (p + 1)..Len(col) : NotNull(col[j])}
                 i == CHOOSE x \in before : \A z \in before : z <= x
                 j == CHOOSE x \in after : \A z \in after : x <= z
             IN  IF before = {} THEN NaN
                 ELSE IF after = {} THEN col[i]
                 ELSE RatAdd(col[i],
                             RatDivInt(RatMul(RatSub(col[j], col[i]), Rat(p - i)),
                                       j - i))])

\* Series.interpolate(method='linear', limit_direction='both'): by position
\* between the valid neighbours, the nearest valid value outside them
Interpolate(col) ==
    Rows([p \in 1..Len(col) |->
        IF NotNull(col[p]) THEN col[p]
        ELSE LET before == {i \in 1..(p - 1) : NotNull(col[i])}
                 after == {j \in (p + 1)..Len(col) : NotNull(col[j])}
                 i == CHOOSE x \in before : \A z \in before : z <= x
                 j == CHOOSE x \in after : \A z \in after : x <= z
             IN  IF before = {} /\ after = {} THEN NaN
                 ELSE IF before = {} THEN col[j]
                 ELSE IF after = {} THEN col[i]
                 ELSE RatAdd(col[i],
                             RatDivInt(RatMul(RatSub(col[j], col[i]), Rat(p - i)),
                                       j - i))])

RECURSIVE Unique(_)
\* Series.unique(): the values in order of first appearance
Unique(s) ==
    IF s = <<>> THEN <<>>
    ELSE LET front == Unique(SubSeq(s, 1, Len(s) - 1))
             x == s[Len(s)]
         IN  IF \E k \in 1..Len(front) : front[k] = x THEN front
             ELSE Append(front, x)

ParcelIds(rows) == Unique([i \in 1..Len(rows) |-> rows[i].parcelle_id])

\* mutant of ParcelMask: the slice is the whole table, whatever the parcel
ParcelMaskWholeTable(rows, parcelle) == Rows([i \in 1..Len(rows) |-> i])

\* the positions of the rows of one parcel: features['parcelle_id'] == parcelle
ParcelMask(rows, parcelle) ==
    SelectSeq([i \in 1..Len(rows) |-> i], LAMBDA i : rows[i].parcelle_id = parcelle)

CarryFillParcel(rows, parcelle) ==
    LET mask == ParcelMask(rows, parcelle)
        filled_data == Cells([c \in columns_to_fill |->
                          CarryFill(Rows([k \in 1..Len(mask) |-> rows[mask[k]][c]]))])
    IN  Rows([i \in 1..Len(rows) |->
            IF rows[i].parcelle_id # parcelle THEN rows[i]
            ELSE LET k == CHOOSE k \in 1..Len(mask) : mask[k] = i
                 IN  Cells([c \in DOMAIN rows[i] |->
                        IF c \in columns_to_fill THEN filled_data[c][k]
                        ELSE rows[i][c]])])

InterpolateParcel(rows, parcelle) ==
    LET mask == ParcelMask(rows, parcelle)
        interpolated_data ==
            Cells([c \in columns_to_interpolate |->
                Interpolate(Rows([k \in 1..Len(mask) |-> rows[mask[k]][c]]))])
    IN  Rows([i \in 1..Len(rows) |->
            IF rows[i].parcelle_id # parcelle THEN rows[i]
            ELSE LET k == CHOOSE k \in 1..Len(mask) : mask[k] = i
                 IN  Cells([c \in DOMAIN rows[i] |->
                        IF c \in columns_to_interpolate THEN interpolated_data[c][k]
                        ELSE rows[i][c]])])

RECURSIVE CarryFillLoop(_, _)
\* for parcelle in features['parcelle_id'].unique(): (lines 152-160)
CarryFillLoop(rows, parcelles) ==
    IF parcelles = <<>> THEN rows
    ELSE CarryFillLoop(CarryFillParcel(rows, Head(parcelles)), Tail(parcelles))

RECURSIVE InterpolateLoop(_, _)
\* for parcelle in features['parcelle_id'].unique(): (lines 166-174)
InterpolateLoop(rows, parcelles) ==
    IF parcelles = <<>> THEN rows
    ELSE InterpolateLoop(InterpolateParcel(rows, Head(parcelles)), Tail(parcelles))

\* mutant of FillFinalYield: the final fillna(0) is left out
FillFinalYieldSkipped(rows) == rows

FillFinalYield(rows) ==
    Rows([i \in 1..Len(rows) |-> [rows[i] EXCEPT !.rendement_final = FillnaZero(@)]])

\* lines 148-176 of prepare_features; selecting a column the table does not
\* have raises KeyError
FillGaps(table) ==
    IF ~(columns_to_fill \subseteq table.columns
         /\ columns_to_interpolate \subseteq table.columns
         /\ "rendement_final" \in table.columns
         /\ "parcelle_id" \in table.columns)
    THEN [err |-> "KeyError", table |-> NoTable]
    ELSE LET r1 == CarryFillLoop(table.rows, ParcelIds(table.rows))
             r2 == InterpolateLoop(r1, ParcelIds(r1))
         IN  [err |-> "ok", table |-> [table EXCEPT !.rows = FillFinalYield(r2)]]

(***************************** prepare_features ****************************)
\* prepare_features as a function of the manager's tables: what it leaves in
\* the tables, what it prints, and what it returns or raises
PrepareFeaturesOn(tabs) ==
    LET setup == SetupTemporalIndices(tabs)
        failed(e, t, r) == [err |-> e, tables |-> t, report |-> r,
                            merged |-> NoTable, features |-> NoTable]
    IN  IF setup.err # "ok" THEN failed(setup.err, setup.tables, NoReport)
        ELSE LET verify == VerifyTemporalConsistency(setup.tables)
             IN  IF verify.err # "ok"
                 THEN failed(verify.err, setup.tables, NoReport)
                 ELSE LET joined == MergeFeatures(setup.tables)
                      IN  IF joined.err # "ok"
                          THEN failed(joined.err, setup.tables, verify.report)
                          ELSE LET filled == FillGaps(joined.table)
                               IN  [err |-> filled.err,
                                    tables |-> setup.tables,
                                    report |-> verify.report,
                                    merged |-> joined.table,
                                    features |-> filled.table]

CalledWith(name, parcelle_id) ==
    /\ op' = name
    /\ argument' = parcelle_id
    /\ prev' = [op |-> op, outcome |-> outcome, features |-> features]

Called(name) == CalledWith(name, NullStr)

PrepareFeatures ==
    /\ pc = "loaded"
    /\ LET r == PrepareFeaturesOn(Tables)
       IN  /\ monitoring_data' = r.tables.monitoring
           /\ weather_data' = r.tables.weather
           /\ soil_data' = r.tables.soil
           /\ yield_history' = r.tables.yield
           /\ report' = r.report
           /\ merged' = r.merged
           /\ features' = r.features
           /\ outcome' = r.err
    /\ returned' = NoTable
    /\ Called("prepare_features")
    /\ UNCHANGED <<files, pc, snapshot>>

(***************************** risk metrics ********************************)
\* mutant of AnyNull: the null check is left out
AnyNullIgnored(rows, c) == FALSE

AnyNull(rows, c) == \E i \in 1..Len(rows) : IsNull(rows[i][c])
AnyNullId(rows) == \E i \in 1..Len(rows) : rows[i].parcelle_id = NullStr

\* the raise conditions of calculate_risk_metrics (lines 228-232 and 247):
\* "ok" or what it raises
RiskValidation(data, soil) ==
    IF ~({"stress_hydrique", "temperature", "parcelle_id"} \subseteq data.columns)
    THEN "KeyError"
    ELSE IF AnyNull(data.rows, "stress_hydrique") \/ AnyNull(data.rows, "temperature")
    THEN "ValueError"
    ELSE IF AnyNullId(soil.rows) \/ AnyNull(soil.rows, "capacite_retention_eau")
    THEN "ValueError"
    ELSE IF \E i \in 1..Len(data.rows) :
                \/ ~\E k \in 1..Len(soil.rows) :
                        soil.rows[k].parcelle_id = data.rows[i].parcelle_id
    THEN "ValueError"
    ELSE "ok"

\* A float that may hold a square root is kept exact as the pair [rat, rad]
\* of rationals, the value rat + sqrt(rad), where rad is no square but 0.
RealNaN == [rat |-> NaN, rad |-> NaN]
Real(q) == IF IsNull(q) THEN RealNaN ELSE [rat |-> q, rad |-> Rat(0)]
RealIsNull(x) == IsNull(x.rat)

RECURSIVE RootBelow(_, _)
\* the greatest r <= x with r * r <= n, for an x whose square is not below n
RootBelow(n, x) ==
    LET y == (x + n \div x) \div 2
    IN  IF y >= x THEN x ELSE RootBelow(n, y)

\* the whole part of the square root of n >= 0
IntRoot(n) == IF n = 0 THEN 0 ELSE RootBelow(n, n)
IsSquare(n) == IntRoot(n) * IntRoot(n) = n

\* the square root of a rational v >= 0
Sqrt(v) ==
    IF IsNull(v) THEN RealNaN
    ELSE IF IsSquare(v.num) /\ IsSquare(v.den)
    THEN Real(Frac(IntRoot(v.num), IntRoot(v.den)))
    ELSE [rat |-> Rat(0), rad |-> v]

\* x * w for a rational weight w >= 0, and x + q for a rational q
RealScale(x, w) ==
    IF RealIsNull(x) \/ IsNull(w) THEN RealNaN
    ELSE [rat |-> RatMul(x.rat, w), rad |-> RatMul(x.rad, RatMul(w, w))]
RealAddRat(x, q) ==
    IF RealIsNull(x) \/ IsNull(q) THEN RealNaN
    ELSE [rat |-> RatAdd(x.rat, q), rad |-> x.rad]

RECURSIVE SumSquares(_, _, _)
\* the sum of the squared distances to `mean` of the non-null cells of column c
SumSquares(rows, c, mean) ==
    IF rows = <<>> THEN Rat(0)
    ELSE LET v == Head(rows)[c]
             rest == SumSquares(Tail(rows), c, mean)
         IN  IF IsNull(v) THEN rest
             ELSE RatAdd(RatMul(RatSub(v, mean), RatSub(v, mean)), rest)

\* the groupby aggregation 'std': the sample standard deviation (ddof = 1),
\* NaN for fewer than two values
ColumnStd(rows, c) ==
    LET n == CountValid(rows, c)
    IN  IF n < 2 THEN RealNaN
        ELSE Sqrt(RatDivInt(SumSquares(rows, c, ColumnMean(rows, c)), n - 1))

\* the parcel ids of the model in sorted order, as groupby sorts its keys
ParcelOrder == <<"P1", "P2", "P3">>
GroupKeys(rows) ==
    SelectSeq(ParcelOrder,
              LAMBDA p : \E i \in 1..Len(rows) : rows[i].parcelle_id = p)

\* lines 235-240: one row per parcel, with mean and std of stress_hydrique
\* and the mean of temperature
GroupMetrics(rows) ==
    LET keys == GroupKeys(rows)
    IN  Rows([k \in 1..Len(keys) |->
            LET group == SelectSeq(rows, LAMBDA r : r.parcelle_id = keys[k])
            IN  [parcelle_id |-> keys[k],
                 mean_stress |-> ColumnMean(group, "stress_hydrique"),
                 stress_variability |-> ColumnStd(group, "stress_hydrique"),
                 mean_temperature |-> ColumnMean(group, "temperature")]])

\* stress_metrics.join(soil_retention, on='parcelle_id', how='left')
JoinRetention(metrics, soil) ==
    Flatten([i \in 1..Len(metrics) |->
        LET hits == SelectSeq(soil,
                        LAMBDA r : r.parcelle_id = metrics[i].parcelle_id)
        IN  IF hits = <<>>
            THEN <<metrics[i] @@ [capacite_retention_eau |-> NaN]>>
            ELSE [k \in 1..Len(hits) |->
                    metrics[i] @@ [capacite_retention_eau |->
                                       hits[k].capacite_retention_eau]]])

\* mutant of weights: the weights of the stress mean and of its variability
\* are exchanged
weights_exchanged ==
    [mean_stress |-> Frac(3, 10), stress_variability |-> Frac(4, 10),
     capacite_retention_eau |-> Frac(2, 10), mean_temperature |-> Frac(1, 10)]

\* the weights 0.4, 0.3, 0.2 and 0.1
weights ==
    [mean_stress |-> Frac(4, 10), stress_variability |-> Frac(3, 10),
     capacite_retention_eau |-> Frac(2, 10), mean_temperature |-> Frac(1, 10)]

\* lines 259-264
RiskScore(r) ==
    RealAddRat(
        RealScale(r.stress_variability, weights.stress_variability),
        RatAdd(RatAdd(RatMul(r.mean_stress, weights.mean_stress),
                      RatMul(RatSub(Rat(1), r.capacite_retention_eau),
                             weights.capacite_retention_eau)),
               RatMul(r.mean_temperature, weights.mean_temperature)))

MetricsColumns == {"mean_stress", "stress_variability", "mean_temperature",
                   "capacite_retention_eau", "risk_score"}

\* calculate_risk_metrics(data): what it raises, and the table it returns
CalculateRiskMetricsOn(data, soil) ==
    LET checked == RiskValidation(data, soil)
    IN  IF checked # "ok" THEN [err |-> checked, table |-> NoTable]
        ELSE LET stress_metrics == JoinRetention(GroupMetrics(data.rows), soil.rows)
             IN  [err |-> "ok",
                  table |->
                    [index |-> "parcelle_id", columns |-> MetricsColumns,
                     rows |-> Rows([i \in 1..Len(stress_metrics) |->
                                stress_metrics[i]
                                @@ [risk_score |-> RiskScore(stress_metrics[i])]])]]

(***************************** temporal patterns ***************************)
RatLeq(a, b) == a.num * b.den <= b.num * a.den

RECURSIVE InsertByValue(_, _)
InsertByValue(v, s) ==
    IF s = <<>> THEN <<v>>
    ELSE IF RatLeq(Head(s), v) THEN <<Head(s)>> \o InsertByValue(v, Tail(s))
    ELSE <<v>> \o s

RECURSIVE SortValues(_)
SortValues(col) ==
    IF col = <<>> THEN <<>>
    ELSE InsertByValue(Head(col), SortValues(Tail(col)))

\* the aggregations min, max and median of the non-null cells of a column
ValidValues(rows, c) ==
    SortValues(SelectSeq(Rows([i \in 1..Len(rows) |-> rows[i][c]]), NotNull))
ColumnMin(rows, c) ==
    LET v == ValidValues(rows, c) IN IF v = <<>> THEN NaN ELSE v[1]
ColumnMax(rows, c) ==
    LET v == ValidValues(rows, c) IN IF v = <<>> THEN NaN ELSE v[Len(v)]
ColumnMedian(rows, c) ==
    LET v == ValidValues(rows, c)
        n == Len(v)
    IN  IF n = 0 THEN NaN
        ELSE IF n % 2 = 1 THEN v[(n + 1) \div 2]
        ELSE RatDivInt(RatAdd(v[n \div 2], v[n \div 2 + 1]), 2)

\* the calendar of the model: day 0 is the first of January of a common year
MonthLengths == <<31, 28, 31, 30, 31, 30, 31, 31, 30, 31, 30, 31>>

RECURSIVE MonthFrom(_, _)
MonthFrom(day, m) ==
    LET length == MonthLengths[(m % Len(MonthLengths)) + 1]
    IN  IF day < length THEN m ELSE MonthFrom(day - length, m + 1)

\* the month of a timestamp, counted from the month of day 0
MonthOf(ts) == MonthFrom(ts \div MinutesPerDay, 0)

\* the numeric columns a feature table may have
NumericColumns ==
    columns_to_fill \cup columns_to_interpolate
    \cup {"latitude", "longitude", "stress_hydrique",
          "capacite_retention_eau", "rendement_final"}

\* mutant of Empty: no slice counts as empty
EmptyNever(rows) == FALSE

\* DataFrame.empty
Empty(rows) == rows = <<>>

\* resample('M').agg(['mean', 'std', 'min', 'max', 'median']): a row per
\* month from the first to the last month of the slice, the months without
\* rows included
MonthlyStats(rows, columns) ==
    LET months == {MonthOf(rows[i].date) : i \in 1..Len(rows)}
        first == LeastOfSet(months)
        last == GreatestOfSet(months)
    IN  IF rows = <<>> THEN <<>>
        ELSE Rows([k \in 1..(last - first + 1) |->
            LET bucket == SelectSeq(rows,
                              LAMBDA r : MonthOf(r.date) = first + k - 1)
            IN  [month |-> first + k - 1,
                 stats |-> Cells([c \in columns |->
                            [mean |-> ColumnMean(bucket, c),
                             std |-> ColumnStd(bucket, c),
                             min |-> ColumnMin(bucket, c),
                             max |-> ColumnMax(bucket, c),
                             median |-> ColumnMedian(bucket, c)]])]])

\* get_temporal_patterns(features, parcelle_id): what it raises, and the
\* table it returns
GetTemporalPatternsOn(data, soil, yld, parcelle_id) ==
    IF "parcelle_id" \notin data.columns THEN [err |-> "KeyError", table |-> NoTable]
    ELSE LET parcelle_data == SelectSeq(data.rows,
                                  LAMBDA r : r.parcelle_id = parcelle_id)
             cols_to_exclude == soil.columns \cup yld.columns
             numeric_columns == (data.columns \cap NumericColumns) \ cols_to_exclude
         IN  IF Empty(parcelle_data) THEN [err |-> "ValueError", table |-> NoTable]
             ELSE IF data.index # "date" THEN [err |-> "TypeError", table |-> NoTable]
             ELSE [err |-> "ok",
                   table |-> [index |-> "date", columns |-> numeric_columns,
                              rows |-> MonthlyStats(parcelle_data, numeric_columns)]]

(***************************** yield patterns ******************************)
\* mutant of period: a period of two years
period_longer == 1 + 1

period == 1

RECURSIVE InsertByLabel(_, _)
InsertByLabel(r, s) ==
    IF s = <<>> THEN <<r>>
    ELSE IF Head(s).label <= r.label THEN <<Head(s)>> \o InsertByLabel(r, Tail(s))
    ELSE <<r>> \o s

RECURSIVE SortByLabel(_)
\* history.sort_index(): by the index labels, whatever the index is
SortByLabel(rows) ==
    IF rows = <<>> THEN <<>>
    ELSE InsertByLabel(rows[Len(rows)], SortByLabel(SubSeq(rows, 1, Len(rows) - 1)))

\* yield_history[yield_history['parcelle_id'] == parcelle_id]: the rows of
\* the parcel with their index labels, the dates when `date` is the index
\* and the positions in the table, from 0, when it is not
History(yld, parcelle_id) ==
    LET at == SelectSeq(Rows([i \in 1..Len(yld.rows) |-> i]),
                        LAMBDA i : yld.rows[i].parcelle_id = parcelle_id)
    IN  Rows([k \in 1..Len(at) |->
            [label |-> IF yld.index = "date" THEN yld.rows[at[k]].date
                       ELSE at[k] - 1,
             rendement_final |-> yld.rows[at[k]].rendement_final]])

RECURSIVE SumSeq(_)
SumSeq(col) == IF col = <<>> THEN Rat(0) ELSE RatAdd(Head(col), SumSeq(Tail(col)))

\* the moving-average filter seasonal_decompose builds for a period
Filt(p) ==
    IF p % 2 = 0
    THEN Rows([k \in 1..(p + 1) |->
            IF k = 1 \/ k = p + 1 THEN Frac(1, 2 * p) ELSE Frac(1, p)])
    ELSE Rows([k \in 1..p |-> Frac(1, p)])

\* convolution_filter(x, filt, nsides = 2): the centred moving average, NaN
\* where the window reaches beyond the series
ConvolutionFilter(x, filt) ==
    LET half == (Len(filt) - 1) \div 2
    IN  Rows([i \in 1..Len(x) |->
            IF i - half < 1 \/ i + half > Len(x) THEN NaN
            ELSE SumSeq(Rows([k \in 1..Len(filt) |->
                        RatMul(filt[k], x[i + half + 1 - k])]))])

\* the mean of the non-null values (nanmean), NaN when there is none
NanMean(col) ==
    LET valid == SelectSeq(col, NotNull)
    IN  IF valid = <<>> THEN NaN ELSE RatDivInt(SumSeq(valid), Len(valid))

\* seasonal_mean(detrended, period): the mean of every period-th value
SeasonalMean(x, p) ==
    Rows([j \in 1..p |->
        NanMean(SelectSeq(Rows([i \in 1..Len(x) |->
                              IF (i - 1) % p = j - 1 THEN x[i] ELSE NaN]),
                          NotNull))])

\* mutant of EnoughCycles: the length of the series is not checked
EnoughCyclesUnchecked(x, p) == TRUE

\* seasonal_decompose needs two complete cycles
EnoughCycles(x, p) == Len(x) >= 2 * p

\* seasonal_decompose(x, model='additive', period=p)
SeasonalDecompose(x, p) ==
    IF \E i \in 1..Len(x) : IsNull(x[i]) THEN [err |-> "ValueError", rows |-> <<>>]
    ELSE IF ~EnoughCycles(x, p) THEN [err |-> "ValueError", rows |-> <<>>]
    ELSE LET trend == ConvolutionFilter(x, Filt(p))
             detrended == Rows([i \in 1..Len(x) |-> RatSub(x[i], trend[i])])
             averages == SeasonalMean(detrended, p)
             centre == RatDivInt(SumSeq(averages), p)
             seasonal == Rows([i \in 1..Len(x) |->
                            RatSub(averages[((i - 1) % p) + 1], centre)])
         IN  [err |-> "ok",
              rows |-> Rows([i \in 1..Len(x) |->
                        [trend |-> trend[i],
                         seasonal |-> seasonal[i],
                         resid |-> RatSub(detrended[i], seasonal[i]),
                         observed |-> x[i]]])]

DecomposedColumns == {"trend", "seasonal", "resid", "observed"}

\* analyze_yield_patterns(parcelle_id): what it raises, and the table it
\* returns, whose rows carry the index labels of the sorted history
AnalyzeYieldPatternsOn(yld, parcelle_id) ==
    IF ~({"parcelle_id", "rendement_final"} \subseteq yld.columns)
    THEN [err |-> "KeyError", table |-> NoTable]
    ELSE LET selected == History(yld, parcelle_id)
         IN  IF Empty(selected) THEN [err |-> "ValueError", table |-> NoTable]
             ELSE LET history == SortByLabel(selected)
                      decomposed ==
                        SeasonalDecompose(
                            Rows([i \in 1..Len(history) |->
                                    history[i].rendement_final]),
                            period)
                  IN  IF decomposed.err # "ok"
                      THEN [err |-> decomposed.err, table |-> NoTable]
                      ELSE [err |-> "ok",
                            table |->
                              [index |-> yld.index, columns |-> DecomposedColumns,
                               rows |-> Rows([i \in 1..Len(history) |->
                                          [label |-> history[i].label]
                                          @@ decomposed.rows[i]])]]

\* the parcel ids the pattern queries are made with; P3 is in no table of
\* the specifications that make them
QueriedParcels == {"P1", "P2", "P3"}

GetTemporalPatterns ==
    /\ pc = "loaded"
    /\ features # NoTable
    /\ \E parcelle_id \in QueriedParcels :
        LET r == GetTemporalPatternsOn(features, soil_data, yield_history,
                                       parcelle_id)
        IN  /\ outcome' = r.err
            /\ returned' = r.table
            /\ CalledWith("get_temporal_patterns", parcelle_id)
    /\ UNCHANGED <<files, pc, monitoring_data, weather_data, soil_data,
                   yield_history, merged, features, report, snapshot>>

AnalyzeYieldPatterns ==
    /\ pc = "loaded"
    /\ \E parcelle_id \in QueriedParcels :
        LET r == AnalyzeYieldPatternsOn(yield_history, parcelle_id)
        IN  /\ outcome' = r.err
            /\ returned' = r.table
            /\ CalledWith("analyze_yield_patterns", parcelle_id)
    /\ UNCHANGED <<files, pc, monitoring_data, weather_data, soil_data,
                   yield_history, merged, features, report, snapshot>>

(***************************** add_risk_heatmap ****************************)
\* lines 98-100 of add_risk_heatmap: three reset_index calls in turn
ResetIndices(tabs) ==
    IF ~CanResetIndex(tabs.monitoring) THEN [err |-> "ValueError", tables |-> tabs]
    ELSE LET t1 == [tabs EXCEPT !.monitoring = ResetIndex(@)]
         IN  IF ~CanResetIndex(t1.weather) THEN [err |-> "ValueError", tables |-> t1]
             ELSE LET t2 == [t1 EXCEPT !.weather = ResetIndex(@)]
                  IN  IF ~CanResetIndex(t2.yield)
                      THEN [err |-> "ValueError", tables |-> t2]
                      ELSE [err |-> "ok",
                            tables |-> [t2 EXCEPT !.yield = ResetIndex(@)]]

AddRiskHeatmap ==
    /\ pc = "loaded"
    /\ LET reset == ResetIndices(Tables)
           r == IF reset.err = "ok" THEN PrepareFeaturesOn(reset.tables)
                ELSE [err |-> reset.err, tables |-> reset.tables,
                      report |-> report, merged |-> NoTable, features |-> NoTable]
           risk_metrics == IF r.err = "ok"
                           THEN CalculateRiskMetricsOn(r.features, r.tables.soil)
                           ELSE [err |-> r.err, table |-> NoTable]
       IN  /\ monitoring_data' = r.tables.monitoring
           /\ weather_data' = r.tables.weather
           /\ soil_data' = r.tables.soil
           /\ yield_history' = r.tables.yield
           /\ report' = r.report
           /\ merged' = r.merged
           /\ features' = r.features
           /\ outcome' = risk_metrics.err
           /\ returned' = risk_metrics.table
    /\ Called("add_risk_heatmap")
    /\ UNCHANGED <<files, pc, snapshot>>

(***************************** inputs ***************************************)
Days == 0..MaxDay
Midnight(d) == d * MinutesPerDay

Latitude(p) == IF p = "P1" THEN 10 ELSE 11
Longitude(p) == IF p = "P1" THEN 20 ELSE 21
Culture(p) == IF p = "P1" THEN "ble" ELSE "mais"

ColNo(c) ==
    CASE c = "temperature" -> 1
      [] c = "humidite" -> 2
      [] c = "precipitation" -> 3
      [] c = "rayonnement_solaire" -> 4
      [] c = "vitesse_vent" -> 5
      [] OTHER -> 6

Reverse(s) == Rows([i \in 1..Len(s) |-> s[Len(s) + 1 - i]])

\* meteo_detaillee.csv: n hourly rows from day 0, 00:00.  A cell is null on
\* every nullEvery-th row of its column and on the days of nullDays, where
\* the days are shifted from one column to the next
RawWeather(n, seed, nullEvery, nullDays) ==
    LET ndays == (n * MinutesPerHour + MinutesPerDay - 1) \div MinutesPerDay
    IN  Rows([i \in 1..n |->
          [c \in WeatherColumns |->
            IF c = "date" THEN (i - 1) * MinutesPerHour
            ELSE LET day == ((i - 1) * MinutesPerHour) \div MinutesPerDay
                 IN  IF \/ nullEvery > 0 /\ (i + ColNo(c)) % nullEvery = 0
                        \/ ((day + ColNo(c) - 1) % ndays) \in nullDays
                     THEN NaN
                     ELSE Rat((seed * i + ColNo(c)) % 7)]])

\* monitoring_cultures.csv: one row per observed (day, parcel); with `sparse`
\* the estimate and progress columns are null except on the first and last day
MonitoringRow(d, p, sparse) ==
    [date |-> Midnight(d), parcelle_id |-> p,
     latitude |-> Latitude(p), longitude |-> Longitude(p),
     stress_hydrique |-> IF sparse /\ p = "P2" /\ d = 1 THEN NaN
                         ELSE Rat(IF p = "P1" THEN d + 1 ELSE 2),
     rendement_estime |-> IF sparse /\ d \notin {0, MaxDay} THEN NaN
                          ELSE Rat(d * d + 1),
     progression |-> IF sparse /\ d # 1 THEN NaN ELSE Rat(d),
     culture |-> Culture(p)]

MonitoringRows(days1, days2, sparse) ==
    Flatten([k \in 1..(MaxDay + 1) |->
        (IF (k - 1) \in days1 THEN <<MonitoringRow(k - 1, "P1", sparse)>> ELSE <<>>)
        \o (IF (k - 1) \in days2 THEN <<MonitoringRow(k - 1, "P2", sparse)>> ELSE <<>>)])

\* the days a parcel is observed on: a run of days, or all but day 1
DaySets == {lo..hi : lo \in Days, hi \in Days} \cup {Days \ {1}}

MonitoringFiles ==
    {MonitoringRows(days1, {}, FALSE) : days1 \in DaySets}
    \cup {MonitoringRows(days1, Days, FALSE) : days1 \in DaySets}
    \cup {Reverse(MonitoringRows(days1, Days, FALSE)) : days1 \in DaySets}
    \cup {MonitoringRows(days1, Days, TRUE) : days1 \in DaySets}

SoilRow(p, lat, cap) ==
    [parcelle_id |-> p, latitude |-> lat, longitude |-> Longitude(p),
     capacite_retention_eau |-> cap]
YieldRow(d, p, culture, rendement) ==
    [date |-> Midnight(d), parcelle_id |-> p, culture |-> culture,
     rendement_final |-> rendement]

\* sols.csv and historique_rendements.csv
PlainSoilYield ==
    [soil |-> <<SoilRow("P1", Latitude("P1"), Frac(1, 5)),
                SoilRow("P2", Latitude("P2"), Frac(4, 5))>>,
     yield |-> <<YieldRow(0, "P1", "orge", Rat(3))>>]

SoilYieldFiles ==
    { \* every parcel has its soil record; one yield record, of another culture
      PlainSoilYield,
      \* no soil record for P2, no yield record at all
      [soil |-> <<SoilRow("P1", Latitude("P1"), Frac(2, 5))>>,
       yield |-> <<>>],
      \* a soil record at another place, a null retention, a null final yield
      [soil |-> <<SoilRow("P1", Latitude("P1") + 1, Frac(3, 5)),
                  SoilRow("P2", Latitude("P2"), NaN)>>,
       yield |-> <<YieldRow(1, "P1", "ble", NaN),
                   YieldRow(0, "P2", "mais", Rat(2))>>],
      \* two soil records with the same key
      [soil |-> <<SoilRow("P1", Latitude("P1"), Frac(1, 5)),
                  SoilRow("P1", Latitude("P1"), Frac(2, 5)),
                  SoilRow("P2", Latitude("P2"), Frac(4, 5))>>,
       yield |-> <<YieldRow(0, "P1", "ble", Rat(3))>>],
      \* two yield records with the same key
      [soil |-> <<SoilRow("P1", Latitude("P1"), Frac(1, 5)),
                  SoilRow("P2", Latitude("P2"), Frac(4, 5))>>,
       yield |-> <<YieldRow(0, "P1", "ble", Rat(3)),
                   YieldRow(0, "P1", "ble", Rat(4))>>] }

\* the weather feeds of Spec: nothing, one row, MaxDay whole days and the
\* first row of the next; no null day, one null day, or only null days
WeatherFiles ==
    {RawWeather(n, 1, 0, nullDays) :
        n \in {0, 1, MaxDay * chunk_size + 1},
        nullDays \in {{}, {1}, 0..MaxDay}}

FullMonitoring == MonitoringRows(Days, Days, FALSE)
FullWeather == RawWeather(MaxDay * chunk_size + 1, 1, 0, {})
FilesOf(m, w, sy) ==
    [monitoring |-> m, weather |-> w, soil |-> sy.soil, yield |-> sy.yield]

\* the inputs of Spec: two of the three inputs vary together, the third is plain
Files ==
    {FilesOf(m, w, PlainSoilYield) : m \in MonitoringFiles, w \in WeatherFiles}
    \cup {FilesOf(FullMonitoring, w, sy) : w \in WeatherFiles, sy \in SoilYieldFiles}
    \cup {FilesOf(m, FullWeather, sy) : m \in MonitoringFiles, sy \in SoilYieldFiles}

NoTables == [monitoring |-> NoTable, weather |-> NoTable,
             soil |-> NoTable, yield |-> NoTable]
NoCall == [op |-> "none", outcome |-> "none", features |-> NoTable]

\* the manager after __init__, before load_data
Constructed ==
    /\ pc = "new"
    /\ monitoring_data = NoTable
    /\ weather_data = NoTable
    /\ soil_data = NoTable
    /\ yield_history = NoTable
    /\ merged = NoTable
    /\ features = NoTable
    /\ report = NoReport
    /\ outcome = "none"
    /\ op = "init"
    /\ returned = NoTable
    /\ argument = NullStr
    /\ snapshot = NoTables
    /\ prev = NoCall

Init == files \in Files /\ Constructed

Next == LoadData \/ PrepareFeatures \/ AddRiskHeatmap

Spec == Init /\ [][Next]_vars

(***************************** the weather aggregator alone ****************)
AggFiles ==
    {[monitoring |-> MonitoringRows({0}, {}, FALSE),
      weather |-> RawWeather(n, seed, nullEvery, {}),
      soil |-> <<>>, yield |-> <<>>] :
        n \in 0..MaxRaw, seed \in 1..3, nullEvery \in {0, 1, 3}}

InitAgg == files \in AggFiles /\ Constructed

NextAgg == LoadData

SpecAgg == InitAgg /\ [][NextAgg]_vars

(***************************** the gap filler alone ************************)
FeatureColumns ==
    (MonitoringColumns \ {"date"}) \cup columns_to_fill
    \cup {"capacite_retention_eau", "rendement_final"}

\* whether row k of an n-row slice is valid in column number no, when the
\* rows of `mask` are the valid ones of column 1 and each further column has
\* the valid rows one position later
ValidAt(k, n, no, mask) == (((k + no - 2) % n) + 1) \in mask

\* row k of a parcel's slice after the three joins
JoinedRow(k, n, p, mask, base) ==
    [c \in columns_to_fill |->
        IF ValidAt(k, n, ColNo(c), mask) THEN Rat(base + 10 * (ColNo(c) - 1) + k)
        ELSE NaN]
    @@ [date |-> Midnight(k - 1), parcelle_id |-> p,
        latitude |-> Latitude(p), longitude |-> Longitude(p),
        stress_hydrique |-> Rat(1),
        rendement_estime |-> IF k \in mask THEN Rat(base + k * k) ELSE NaN,
        progression |-> IF k \in mask THEN NaN ELSE Rat(base + k),
        culture |-> NullStr,
        capacite_retention_eau |-> Frac(1, 2),
        rendement_final |-> IF k \in mask THEN Rat(k) ELSE NaN]

\* a joined table of n rows of P1, alone or each followed by a row of P2 of
\* the same date whose valid cells are where P1's are null
JoinedTable(n, mask, shared) ==
    [index |-> "date", columns |-> FeatureColumns,
     rows |-> Flatten([k \in 1..n |->
                 <<JoinedRow(k, n, "P1", mask, 0)>>
                 \o (IF shared
                     THEN <<JoinedRow(k, n, "P2", (1..n) \ mask, 100)>>
                     ELSE <<>>)])]

JoinedTables ==
    UNION {{JoinedTable(n, mask, shared) :
                mask \in {v \in SUBSET (1..n) : Cardinality(v) <= MaxValid},
                shared \in BOOLEAN} : n \in 0..MaxSlice}

InitFill ==
    /\ files = FilesOf(<<>>, <<>>, [soil |-> <<>>, yield |-> <<>>])
    /\ pc = "joined"
    /\ monitoring_data = NoTable
    /\ weather_data = NoTable
    /\ soil_data = NoTable
    /\ yield_history = NoTable
    /\ merged \in JoinedTables
    /\ features = NoTable
    /\ report = NoReport
    /\ outcome = "none"
    /\ op = "init"
    /\ returned = NoTable
    /\ argument = NullStr
    /\ snapshot = NoTables
    /\ prev = NoCall

\* lines 148-178 of prepare_features on the joined table
FillJoined ==
    /\ pc = "joined"
    /\ pc' = "filled"
    /\ LET filled == FillGaps(merged)
       IN  features' = filled.table /\ outcome' = filled.err
    /\ returned' = NoTable
    /\ Called("prepare_features")
    /\ UNCHANGED <<files, monitoring_data, weather_data, soil_data,
                   yield_history, merged, report, snapshot>>

NextFill == FillJoined

SpecFill == InitFill /\ [][NextFill]_vars

(***************************** the risk scorer alone ***********************)
\* the stress readings of a parcel: up to MaxRisk values
StressValues == {Frac(1, 5), Frac(3, 5)}
StressSeqs == UNION {[1..n -> StressValues] : n \in 0..MaxRisk}

\* row k of the slice of parcel p of a feature table
ScoredRow(p, k, stress) ==
    [c \in columns_to_fill |-> Rat(20 + k)]
    @@ [date |-> Midnight(k - 1), parcelle_id |-> p,
        latitude |-> Latitude(p), longitude |-> Longitude(p),
        stress_hydrique |-> stress,
        rendement_estime |-> Rat(k), progression |-> Rat(k),
        culture |-> NullStr,
        capacite_retention_eau |-> Frac(1, 2),
        rendement_final |-> Rat(0)]

ScoredRows(p, stress) ==
    Rows([k \in 1..Len(stress) |-> ScoredRow(p, k, stress[k])])

\* a feature table with the stress readings s1 of P1 and s2 of P2, with or
\* without a parcel P3 that has the readings of P1, and with a null in the
\* last row's column `null` when that names a column
ScoredTable(s1, s2, third, null) ==
    LET rows == ScoredRows("P1", s1) \o ScoredRows("P2", s2)
                \o (IF third THEN ScoredRows("P3", s1) ELSE <<>>)
        n == Len(rows)
    IN  [index |-> "date", columns |-> FeatureColumns,
         rows |-> Rows([i \in 1..n |->
                    IF i = n /\ null \in DOMAIN rows[i]
                    THEN Cells([rows[i] EXCEPT ![null] = NaN])
                    ELSE rows[i]])]

ScoredTables ==
    {ScoredTable(s1, s2, third, null) :
        s1 \in StressSeqs, s2 \in StressSeqs, third \in BOOLEAN,
        null \in {"none", "stress_hydrique", "temperature"}}

\* sols.csv: a record per parcel, P3 set apart by its retention; no record
\* of P3; a null retention; a record without parcel id
ScoredSoils ==
    { <<SoilRow("P1", Latitude("P1"), Frac(1, 2)),
        SoilRow("P2", Latitude("P2"), Frac(1, 2)),
        SoilRow("P3", Latitude("P3"), Frac(1, 5))>>,
      <<SoilRow("P1", Latitude("P1"), Frac(1, 5)),
        SoilRow("P2", Latitude("P2"), Frac(4, 5))>>,
      <<SoilRow("P1", Latitude("P1"), Frac(1, 2)),
        SoilRow("P2", Latitude("P2"), NaN),
        SoilRow("P3", Latitude("P3"), Frac(1, 5))>>,
      <<SoilRow("P1", Latitude("P1"), Frac(1, 2)),
        SoilRow("P2", Latitude("P2"), Frac(1, 2)),
        SoilRow("P3", Latitude("P3"), Frac(1, 5)),
        SoilRow(NullStr, Latitude("P3"), Frac(1, 2))>> }

InitRisk ==
    /\ files = FilesOf(<<>>, <<>>, [soil |-> <<>>, yield |-> <<>>])
    /\ pc = "prepared"
    /\ monitoring_data = NoTable
    /\ weather_data = NoTable
    /\ soil_data \in {[index |-> "range", columns |-> SoilColumns, rows |-> rows] :
                        rows \in ScoredSoils}
    /\ yield_history = NoTable
    /\ merged = NoTable
    /\ features \in ScoredTables
    /\ report = NoReport
    /\ outcome = "none"
    /\ op = "init"
    /\ returned = NoTable
    /\ argument = NullStr
    /\ snapshot = NoTables
    /\ prev = NoCall

\* calculate_risk_metrics(features)
CalculateRiskMetrics ==
    /\ pc = "prepared"
    /\ pc' = "scored"
    /\ LET r == CalculateRiskMetricsOn(features, soil_data)
       IN  outcome' = r.err /\ returned' = r.table
    /\ Called("calculate_risk_metrics")
    /\ UNCHANGED <<files, monitoring_data, weather_data, soil_data,
                   yield_history, merged, features, report, snapshot>>

NextRisk == CalculateRiskMetrics

SpecRisk == InitRisk /\ [][NextRisk]_vars

(***************************** the pattern analyzer ************************)
\* the yield record of parcel p for year y; the first year's yield is missing
YearlyYield(p, y) ==
    YieldRow(y * 365, p, Culture(p),
             IF y = 0 THEN NaN ELSE Rat(y * y + (IF p = "P1" THEN 2 ELSE 5)))

\* historique_rendements.csv: the first n1 years of P1 and the first n2 of
\* P2, year by year, in chronological order or in the reverse order
YearlyYields(n1, n2, reversed) ==
    LET rows == Flatten([k \in 1..MaxYears |->
                    (IF k <= n1 THEN <<YearlyYield("P1", k - 1)>> ELSE <<>>)
                    \o (IF k <= n2 THEN <<YearlyYield("P2", k - 1)>> ELSE <<>>)])
    IN  IF reversed THEN Reverse(rows) ELSE rows

\* monitoring_cultures.csv with the observations of P1 spread over three months
SpreadMonitoring ==
    Rows([k \in 1..4 |-> MonitoringRow(<<0, 30, 31, 65>>[k], "P1", FALSE)])

PatternFiles ==
    {[monitoring |-> MonitoringRows(0..1, {0}, FALSE),
      weather |-> RawWeather(chunk_size + 1, 1, 0, {}),
      soil |-> PlainSoilYield.soil,
      yield |-> YearlyYields(n1, n2, reversed)] :
        n1 \in 0..MaxYears, n2 \in 0..MaxYears, reversed \in BOOLEAN}
    \cup {[monitoring |-> m,
           weather |-> RawWeather(chunk_size + 1, 1, 3, {}),
           soil |-> PlainSoilYield.soil,
           yield |-> PlainSoilYield.yield] :
            m \in {SpreadMonitoring, MonitoringRows(Days, Days, TRUE)}}

InitPatterns == files \in PatternFiles /\ Constructed

NextPatterns ==
    LoadData \/ PrepareFeatures \/ GetTemporalPatterns \/ AnalyzeYieldPatterns

SpecPatterns == InitPatterns /\ [][NextPatterns]_vars

(***************************** claims ***************************************)
\* what the claims are stated with
Returned == op \in {"prepare_features", "add_risk_heatmap"} /\ features # NoTable
FirstPrepare == op = "prepare_features" /\ prev.op = "load_data"

\* the column c of the rows of parcel p, in table order
SliceOf(table, p, c) ==
    LET at == SelectSeq([i \in 1..Len(table.rows) |-> i],
                        LAMBDA i : table.rows[i].parcelle_id = p)
    IN  [k \in 1..Len(at) |-> table.rows[at[k]][c]]
ValidIn(col) == {k \in 1..Len(col) : NotNull(col[k])}
LeastOf(S) == CHOOSE x \in S : \A y \in S : x <= y
GreatestOf(S) == CHOOSE x \in S : \A y \in S : y <= x

RECURSIVE SumOver(_, _, _)
\* the sum of column c over the rows whose positions are in S
SumOver(rows, c, S) ==
    IF S = {} THEN Rat(0)
    ELSE LET i == CHOOSE i \in S : TRUE
         IN  RatAdd(rows[i][c], SumOver(rows, c, S \ {i}))

\* C1: prepare_features is idempotent: a second call straight after a first
\* one that succeeded succeeds too and returns an equal feature table.
C1_PrepareFeaturesIdempotent ==
    (op = "prepare_features" /\ prev.op = "prepare_features" /\ prev.outcome = "ok")
        => (outcome = "ok" /\ features = prev.features)

\* C2: the source tables are read-only after load_data: after prepare_features
\* each has the columns, index and rows it had right after load_data.
C2_SourceTablesReadOnly ==
    (pc = "loaded" /\ FirstPrepare) => Tables = snapshot

\* C3: a raw weather feed of N rows gives ceil(N/24) records; record k is
\* built from rows 24k .. min(24k+23, N-1) (counted from 0), never from no
\* row, and each numeric field is the mean of the block's values of that
\* field (of the non-null ones; null when the block has none).
C3_AggregatorBlocks ==
    pc = "loaded" =>
        LET raw == files.weather
            N == Len(raw)
            agg == weather_data.rows
        IN  /\ Len(agg) = (N + 23) \div 24
            /\ \A k \in 1..Len(agg) :
                LET lo == 24 * (k - 1) + 1
                    hi == IF 24 * k <= N THEN 24 * k ELSE N
                IN  /\ lo <= hi
                    /\ \A c \in columns_to_fill :
                        LET valid == {i \in lo..hi : NotNull(raw[i][c])}
                        IN  agg[k][c] =
                                IF valid = {} THEN NaN
                                ELSE RatDivInt(SumOver(raw, c, valid),
                                               Cardinality(valid))

\* a feed of more than two blocks whose last block is partial has been loaded
C3_Witness ==
    /\ pc = "loaded"
    /\ Len(files.weather) > 48
    /\ Len(files.weather) % 24 # 0
    /\ Len(weather_data.rows) = 3
    /\ \E i \in 1..Len(files.weather) : files.weather[i].temperature # Rat(0)
    /\ NotNull(weather_data.rows[3].temperature)

\* C4: the date of every aggregated weather record is the mean timestamp of
\* its block truncated to midnight: for a block of 24 hourly rows from 00:00
\* to 23:00 of day D it is D 00:00, with a time of day of zero.
C4_DateAtMidnight ==
    pc = "loaded" =>
        \A k \in 1..Len(weather_data.rows) :
            24 * k <= Len(files.weather) =>
                /\ weather_data.rows[k].date % MinutesPerDay = 0
                /\ weather_data.rows[k].date = files.weather[24 * (k - 1) + 1].date

\* C5: every monitoring row is joined to the weather record of the greatest
\* date at or before its own date, and is kept with null weather fields when
\* there is no such record.
C5_AsofJoin ==
    (op \in {"prepare_features", "add_risk_heatmap"} /\ merged # NoTable) =>
        LET m == monitoring_data.rows
            w == weather_data.rows
            j == merged.rows
        IN  /\ Len(j) = Len(m)
            /\ \A i \in 1..Len(m) :
                 Cardinality({x \in 1..Len(j) :
                    j[x].date = m[i].date /\ j[x].parcelle_id = m[i].parcelle_id})
                 = Cardinality({x \in 1..Len(m) :
                    m[x].date = m[i].date /\ m[x].parcelle_id = m[i].parcelle_id})
            /\ \A i \in 1..Len(j) :
                 LET upto == {k \in 1..Len(w) : w[k].date <= j[i].date}
                 IN  IF upto = {}
                     THEN \A c \in columns_to_fill : IsNull(j[i][c])
                     ELSE \E k \in upto :
                            /\ \A x \in upto : w[x].date <= w[k].date
                            /\ \A c \in columns_to_fill : j[i][c] = w[k][c]

\* one row had no weather record at or before it, another one of its own date
C5_Witness ==
    /\ op = "prepare_features"
    /\ merged # NoTable
    /\ \E i \in 1..Len(merged.rows) :
         \A k \in 1..Len(weather_data.rows) :
            weather_data.rows[k].date > merged.rows[i].date
    /\ \E i \in 1..Len(merged.rows) :
         /\ NotNull(merged.rows[i].temperature)
         /\ \E k \in 1..Len(weather_data.rows) :
              /\ weather_data.rows[k].date = merged.rows[i].date
              /\ weather_data.rows[k].temperature = merged.rows[i].temperature
         /\ \E k \in 1..Len(weather_data.rows) :
              weather_data.rows[k].date < merged.rows[i].date

\* the keys of the soil table and of the yield history are unique
SoilKeysUnique ==
    \A a, b \in 1..Len(soil_data.rows) :
        SoilMatch(soil_data.rows[a], soil_data.rows[b]) => a = b
YieldKeysUnique ==
    \A a, b \in 1..Len(yield_history.rows) :
        YieldMatch(yield_history.rows[a], yield_history.rows[b]) => a = b

\* C6: with at most one soil row per (parcelle_id, latitude, longitude) and
\* at most one yield row per (date, parcelle_id), prepare_features returns a
\* table with one row per monitoring row, also for the monitoring rows with
\* no soil or yield record, whose soil fields are null.
C6_RowCount ==
    (FirstPrepare /\ SoilKeysUnique /\ YieldKeysUnique
        /\ monitoring_data.rows # <<>> /\ weather_data.rows # <<>>) =>
        LET m == monitoring_data.rows
            f == features.rows
        IN  /\ outcome = "ok"
            /\ Len(f) = Len(m)
            /\ \A i \in 1..Len(m) :
                 Cardinality({x \in 1..Len(f) :
                    /\ f[x].date = m[i].date
                    /\ f[x].parcelle_id = m[i].parcelle_id
                    /\ f[x].stress_hydrique = m[i].stress_hydrique}) = 1
            /\ \A x \in 1..Len(f) :
                 (\A k \in 1..Len(soil_data.rows) : ~SoilMatch(f[x], soil_data.rows[k]))
                    => IsNull(f[x].capacite_retention_eau)

\* a table was returned in which one row has a soil and a yield record and
\* another row has neither
C6_Witness ==
    /\ FirstPrepare /\ SoilKeysUnique /\ YieldKeysUnique
    /\ outcome = "ok"
    /\ \E x \in 1..Len(features.rows) :
         /\ \A k \in 1..Len(soil_data.rows) :
                ~SoilMatch(features.rows[x], soil_data.rows[k])
         /\ \A k \in 1..Len(yield_history.rows) :
                ~YieldMatch(features.rows[x], yield_history.rows[k])
    /\ \E x \in 1..Len(features.rows) :
         /\ \E k \in 1..Len(soil_data.rows) :
                SoilMatch(features.rows[x], soil_data.rows[k])
         /\ \E k \in 1..Len(yield_history.rows) :
                YieldMatch(features.rows[x], yield_history.rows[k])

\* C7: the culture of every row of the feature table is the culture of its
\* monitoring record; the yield history's culture never replaces it, also
\* for the rows with no yield record.
C7_MonitoringCulture ==
    (FirstPrepare /\ outcome = "ok") =>
        \A x \in 1..Len(features.rows) :
            \E i \in 1..Len(monitoring_data.rows) :
                /\ monitoring_data.rows[i].date = features.rows[x].date
                /\ monitoring_data.rows[i].parcelle_id = features.rows[x].parcelle_id
                /\ monitoring_data.rows[i].culture = features.rows[x].culture

\* the slices the carry-fill claims speak of: a parcel's column before and
\* after gap filling
FilledTable == op \in {"prepare_features", "add_risk_heatmap"} /\ outcome = "ok"
SlicePairs ==
    {[pre |-> SliceOf(merged, p, c), post |-> SliceOf(features, p, c)] :
        p \in Parcels, c \in columns_to_fill}

\* C8 as stated: with valid values only at positions 2, 5 and 9 of a 10-row
\* slice, positions 0-1 take the value at 2, positions 3-4 the value at 2,
\* positions 6-8 the value at 5; an interior null takes the nearest earlier
\* valid value and a leading null the first valid value.
C8_CarryFillAsStated ==
    FilledTable =>
        \A s \in SlicePairs :
            (Len(s.pre) = 10 /\ ValidIn(s.pre) = {3, 6, 10}) =>
                /\ \A k \in {1, 2} : s.post[k] = s.pre[3]
                /\ \A k \in {4, 5} : s.post[k] = s.pre[3]
                /\ \A k \in {7, 8, 9} : s.post[k] = s.pre[6]
                /\ s.post[10] = s.pre[10]

\* C8 amended: with valid values only at positions 2, 5 and 9 of a 10-row
\* slice, positions 0-1 take the value at 2, positions 3-4 the value at 5,
\* positions 6-8 the value at 9, and the valid positions keep their values;
\* in general a leading or interior null takes the nearest later valid value
\* of the parcel, and a valid value is never changed.
C8_CarryFillExample ==
    FilledTable =>
        \A s \in SlicePairs :
            /\ Len(s.post) = Len(s.pre)
            /\ (Len(s.pre) = 10 /\ ValidIn(s.pre) = {3, 6, 10}) =>
                /\ \A k \in {1, 2} : s.post[k] = s.pre[3]
                /\ \A k \in {4, 5} : s.post[k] = s.pre[6]
                /\ \A k \in {7, 8, 9} : s.post[k] = s.pre[10]
                /\ \A k \in {3, 6, 10} : s.post[k] = s.pre[k]
            /\ \A k \in 1..Len(s.pre) :
                /\ NotNull(s.pre[k]) => s.post[k] = s.pre[k]
                /\ (IsNull(s.pre[k]) /\ ValidIn(s.pre) # {}
                        /\ k < GreatestOf(ValidIn(s.pre)))
                    => s.post[k] = s.pre[LeastOf({j \in ValidIn(s.pre) : j > k})]

\* a 10-row slice with valid values only at positions 2, 5 and 9 was filled
C8_Witness ==
    /\ FilledTable
    /\ \E s \in SlicePairs :
        /\ Len(s.pre) = 10
        /\ ValidIn(s.pre) = {3, 6, 10}
        /\ s.pre[3] # s.pre[6] /\ s.pre[6] # s.pre[10]
        /\ ValidIn(s.post) = 1..10

\* C9: carry fill runs backward first, then forward: in each carry-fill
\* column a null with a later valid value in the same parcel takes the
\* nearest later valid value, and a null after the parcel's last valid value
\* takes that last valid value.
C9_BackwardThenForward ==
    FilledTable =>
        \A s \in SlicePairs :
            \A k \in 1..Len(s.pre) :
                IsNull(s.pre[k]) =>
                    LET later == {j \in ValidIn(s.pre) : j > k}
                        earlier == {j \in ValidIn(s.pre) : j < k}
                    IN  /\ later # {} => s.post[k] = s.pre[LeastOf(later)]
                        /\ (later = {} /\ earlier # {})
                            => s.post[k] = s.pre[GreatestOf(earlier)]

\* a slice was filled in which one null had valid values on both sides, of
\* different value, and another null came after the last valid value
C9_Witness ==
    /\ FilledTable
    /\ \E s \in SlicePairs :
        /\ \E k \in 1..Len(s.pre) :
            /\ IsNull(s.pre[k])
            /\ \E i, j \in ValidIn(s.pre) : i < k /\ k < j /\ s.pre[i] # s.pre[j]
        /\ \E k \in 1..Len(s.pre) :
            /\ IsNull(s.pre[k])
            /\ ValidIn(s.pre) # {}
            /\ k > GreatestOf(ValidIn(s.pre))

\* C10: in every feature table returned, a parcel with a non-null value in a
\* carry-fill column before filling has no null in it afterwards, a parcel
\* with none stays entirely null in it, and rendement_final is non-null in
\* every row, 0 where no yield record matched.
C10_NoNullAfterFill ==
    Returned =>
        /\ \A s \in SlicePairs :
            /\ Len(s.post) = Len(s.pre)
            /\ ValidIn(s.pre) # {} => ValidIn(s.post) = 1..Len(s.post)
            /\ ValidIn(s.pre) = {} => ValidIn(s.post) = {}
        /\ \A x \in 1..Len(features.rows) :
            /\ NotNull(features.rows[x].rendement_final)
            /\ (\A k \in 1..Len(yield_history.rows) :
                    ~YieldMatch(features.rows[x], yield_history.rows[k]))
                => features.rows[x].rendement_final = Rat(0)

\* a table was returned in which a parcel had nulls and values in one column,
\* only nulls in another, and a row without yield record
C10_Witness ==
    /\ Returned
    /\ \E s \in SlicePairs : ValidIn(s.pre) # {} /\ ValidIn(s.pre) # 1..Len(s.pre)
    /\ \E s \in SlicePairs : ValidIn(s.pre) = {} /\ Len(s.pre) > 0
    /\ \E x \in 1..Len(features.rows) :
        /\ IsNull(merged.rows[x].rendement_final)
        /\ features.rows[x].rendement_final = Rat(0)
    /\ \E x \in 1..Len(features.rows) :
        features.rows[x].rendement_final # Rat(0)

\* the rows of parcel p of a table, in table order
RowsOfParcel(table, p) == SelectSeq(table.rows, LAMBDA r : r.parcelle_id = p)
OnlyParcel(table, p) == [table EXCEPT !.rows = RowsOfParcel(table, p)]

\* C11: gap filling has no cross-parcel leakage: the gap-filled rows of a
\* parcel are those the gap filler gives for the parcel's rows alone, so two
\* tables that agree on the rows of the parcel give the same filled rows for
\* it, whatever the other parcels' rows are and also when the parcels' rows
\* share their dates and are interleaved.
C11_NoCrossParcelLeakage ==
    FilledTable =>
        \A p \in Parcels :
            RowsOfParcel(features, p) = FillGaps(OnlyParcel(merged, p)).table.rows

\* a table was filled in which a row of P1 with a null reading and a null
\* estimate is followed by a row of P2 of the same date that has both values
C11_Witness ==
    /\ FilledTable
    /\ \E i \in 1..(Len(merged.rows) - 1) :
        LET a == merged.rows[i]
            b == merged.rows[i + 1]
        IN  /\ a.parcelle_id = "P1" /\ b.parcelle_id = "P2" /\ a.date = b.date
            /\ IsNull(a.temperature) /\ NotNull(b.temperature)
            /\ IsNull(a.rendement_estime) /\ NotNull(b.rendement_estime)
            /\ NotNull(features.rows[i].temperature)
            /\ NotNull(features.rows[i].rendement_estime)

InterpolatedPairs ==
    {[pre |-> SliceOf(merged, p, c), post |-> SliceOf(features, p, c)] :
        p \in Parcels, c \in columns_to_interpolate}

\* C12: in the columns rendement_estime and progression, within a parcel's
\* slice, a null between the valid values at positions i < j takes the value
\* on the straight line through them at its own position, a null before the
\* first valid value takes the first valid value, a null after the last one
\* takes the last valid value, and a valid value is unchanged.
C12_LinearInterpolation ==
    FilledTable =>
        \A s \in InterpolatedPairs :
            /\ Len(s.post) = Len(s.pre)
            /\ \A k \in 1..Len(s.pre) :
                LET before == {i \in ValidIn(s.pre) : i < k}
                    after == {j \in ValidIn(s.pre) : j > k}
                IN  /\ NotNull(s.pre[k]) => s.post[k] = s.pre[k]
                    /\ (IsNull(s.pre[k]) /\ before # {} /\ after # {}) =>
                        LET i == GreatestOf(before)
                            j == LeastOf(after)
                            vi == s.pre[i]
                            vj == s.pre[j]
                            v == s.post[k]
                        IN  /\ NotNull(v)
                            /\ v.num * (j - i) * vi.den * vj.den
                                = v.den * (vi.num * vj.den * (j - k)
                                           + vj.num * vi.den * (k - i))
                    /\ (IsNull(s.pre[k]) /\ before = {} /\ after # {})
                        => s.post[k] = s.pre[LeastOf(after)]
                    /\ (IsNull(s.pre[k]) /\ after = {} /\ before # {})
                        => s.post[k] = s.pre[GreatestOf(before)]

\* a slice was interpolated that had nulls before its first valid value,
\* after its last one, and two or more between valid values that differ
C12_Witness ==
    /\ FilledTable
    /\ \E s \in InterpolatedPairs :
        /\ ValidIn(s.pre) # {}
        /\ LeastOf(ValidIn(s.pre)) > 1
        /\ GreatestOf(ValidIn(s.pre)) < Len(s.pre)
        /\ \E i, j \in ValidIn(s.pre) :
            /\ j > i + 2
            /\ \A k \in (i + 1)..(j - 1) : IsNull(s.pre[k])
            /\ s.pre[i] # s.pre[j]
            /\ s.post[i + 1] # s.pre[i] /\ s.post[i + 1] # s.post[i + 2]
        /\ ValidIn(s.post) = 1..Len(s.post)

\* the report of the first prepare_features after load_data
FirstReport == FirstPrepare /\ report.printed

\* C13: check 1 reports OK exactly when the earliest monitoring and weather
\* dates differ by at most one day and the latest ones too, whichever of the
\* two is the earlier and also for timestamps within the day.
C13_RangeTolerance ==
    (FirstReport /\ weather_data.rows # <<>>) =>
        LET m == monitoring_data.rows
            w == weather_data.rows
        IN  report.monitoring_weather_consistent
                <=> /\ Abs(IndexMin(m) - IndexMin(w)) <= MinutesPerDay
                    /\ Abs(IndexMax(m) - IndexMax(w)) <= MinutesPerDay

\* C14: check 3 reports OK exactly when every calendar day from the earliest
\* to the latest monitoring date occurs in the monitoring date index, also
\* for several parcels observed on every day and in any row order.
C14_NoMissingDates ==
    FirstReport =>
        LET m == monitoring_data.rows
            ndays == (IndexMax(m) - IndexMin(m)) \div MinutesPerDay
        IN  (~report.missing_dates)
                <=> \A k \in 0..ndays :
                        (IndexMin(m) + k * MinutesPerDay) \in DateSet(m)

\* C15: the verification never raises and changes no data: whenever the
\* three indices could be set, for every content of the tables, it prints
\* its report and leaves the tables as the index setup left them, and
\* prepare_features returns what the merger and the gap filler give.
C15_VerificationNeverRaises ==
    FirstPrepare =>
        LET setup == SetupTemporalIndices(snapshot)
        IN  setup.err = "ok" =>
                /\ report.printed
                /\ Tables = setup.tables
                /\ LET joined == MergeFeatures(setup.tables)
                   IN  joined.err = "ok" =>
                        /\ outcome = FillGaps(joined.table).err
                        /\ features = FillGaps(joined.table).table

\* the distinct parcel ids of a table
IdsOf(table) == {table.rows[i].parcelle_id : i \in 1..Len(table.rows)}

RealLess(a, b) ==
    /\ a.rad = b.rad
    /\ a.rat.num * b.rat.den < b.rat.num * a.rat.den

\* two rows of a metrics table with three inputs alike
SameButStress(a, b) ==
    /\ a.stress_variability = b.stress_variability
    /\ a.capacite_retention_eau = b.capacite_retention_eau
    /\ a.mean_temperature = b.mean_temperature
SameButRetention(a, b) ==
    /\ a.stress_variability = b.stress_variability
    /\ a.mean_stress = b.mean_stress
    /\ a.mean_temperature = b.mean_temperature

\* C17: risk_score = 0.4 mean_stress + 0.3 stress_variability
\* + 0.2 (1 - capacite_retention_eau) + 0.1 mean_temperature for every parcel;
\* so of two parcels alike in the other three inputs, the one with the larger
\* mean_stress has the strictly larger risk_score, and the one with the
\* larger capacite_retention_eau the strictly smaller risk_score.
C17_RiskScore ==
    (op = "calculate_risk_metrics" /\ outcome = "ok") =>
        /\ \A i \in 1..Len(returned.rows) :
            LET r == returned.rows[i]
                sd == r.stress_variability
            IN  IF RealIsNull(sd) THEN RealIsNull(r.risk_score)
                ELSE /\ r.risk_score.rad = RatMul(sd.rad, Frac(9, 100))
                     /\ r.risk_score.rat =
                            RatDivInt(
                                RatAdd(RatAdd(RatMul(Rat(4), r.mean_stress),
                                              RatMul(Rat(3), sd.rat)),
                                       RatAdd(RatMul(Rat(2),
                                                     RatSub(Rat(1),
                                                        r.capacite_retention_eau)),
                                              r.mean_temperature)),
                                10)
        /\ \A i, j \in 1..Len(returned.rows) :
            LET a == returned.rows[i]
                b == returned.rows[j]
            IN  (~RealIsNull(a.risk_score) /\ ~RealIsNull(b.risk_score)) =>
                    /\ (SameButStress(a, b)
                            /\ a.mean_stress.num * b.mean_stress.den
                                > b.mean_stress.num * a.mean_stress.den)
                        => RealLess(b.risk_score, a.risk_score)
                    /\ (SameButRetention(a, b)
                            /\ a.capacite_retention_eau.num
                                    * b.capacite_retention_eau.den
                                > b.capacite_retention_eau.num
                                    * a.capacite_retention_eau.den)
                        => RealLess(a.risk_score, b.risk_score)

\* metrics were returned in which two parcels differ in mean_stress only,
\* two in capacite_retention_eau only, and the variability is no rational
C17_Witness ==
    /\ op = "calculate_risk_metrics"
    /\ outcome = "ok"
    /\ \E i, j \in 1..Len(returned.rows) :
        /\ SameButStress(returned.rows[i], returned.rows[j])
        /\ returned.rows[i].mean_stress # returned.rows[j].mean_stress
        /\ ~RealIsNull(returned.rows[i].risk_score)
        /\ returned.rows[i].stress_variability.rad # Rat(0)
    /\ \E i, j \in 1..Len(returned.rows) :
        /\ SameButRetention(returned.rows[i], returned.rows[j])
        /\ returned.rows[i].capacite_retention_eau
            # returned.rows[j].capacite_retention_eau
        /\ ~RealIsNull(returned.rows[i].risk_score)

\* the rows of the yield history of the parcel the last call was given
YieldsOfArgument ==
    {k \in 1..Len(yield_history.rows) :
        yield_history.rows[k].parcelle_id = argument}

\* C18: get_temporal_patterns raises, and returns nothing, when the parcel
\* it is given has no row in the feature table, and analyze_yield_patterns
\* when the parcel has no yield record, also for a parcel id that is in no
\* table; neither changes a table then.
C18_NoRowsRaises ==
    [][(\/ /\ op' = "get_temporal_patterns"
           /\ \A i \in 1..Len(features.rows) :
                features.rows[i].parcelle_id # argument'
        \/ /\ op' = "analyze_yield_patterns"
           /\ \A k \in 1..Len(yield_history.rows) :
                yield_history.rows[k].parcelle_id # argument')
       => /\ outcome' = "ValueError"
          /\ returned' = NoTable
          /\ UNCHANGED <<monitoring_data, weather_data, soil_data,
                         yield_history, features>>]_vars

\* analyze_yield_patterns raised for a parcel that has monitoring rows but
\* no yield record, after get_temporal_patterns had raised for a parcel
\* that is in no table
C18_Witness ==
    /\ op = "analyze_yield_patterns"
    /\ outcome = "ValueError"
    /\ YieldsOfArgument = {}
    /\ yield_history.rows # <<>>
    /\ \E i \in 1..Len(monitoring_data.rows) :
        monitoring_data.rows[i].parcelle_id = argument
    /\ prev.op = "get_temporal_patterns"
    /\ prev.outcome = "ValueError"
    /\ features # NoTable

\* C19: for a parcel with two or more yield records analyze_yield_patterns
\* returns one row per record of the parcel, in which seasonal is 0, trend +
\* seasonal + resid is observed, and observed is the rendement_final of the
\* record whose index label the row carries.
C19_Decomposition ==
    (op = "analyze_yield_patterns" /\ Cardinality(YieldsOfArgument) >= 2) =>
        /\ outcome = "ok"
        /\ Len(returned.rows) = Cardinality(YieldsOfArgument)
        /\ \A i \in 1..Len(returned.rows) :
            LET r == returned.rows[i]
            IN  /\ r.seasonal = Rat(0)
                /\ RatAdd(RatAdd(r.trend, r.seasonal), r.resid) = r.observed
        /\ \A k \in YieldsOfArgument :
            \E i \in 1..Len(returned.rows) :
                /\ returned.rows[i].label =
                        IF yield_history.index = "date"
                        THEN yield_history.rows[k].date ELSE k - 1
                /\ returned.rows[i].observed = yield_history.rows[k].rendement_final

\* a history of three records with different yields, given in reverse order
\* and indexed by date, was decomposed
C19_Witness ==
    /\ op = "analyze_yield_patterns"
    /\ outcome = "ok"
    /\ yield_history.index = "date"
    /\ Len(returned.rows) = 3
    /\ returned.rows[1].observed # returned.rows[2].observed
    /\ returned.rows[2].observed # returned.rows[3].observed
    /\ \E j, k \in YieldsOfArgument :
        j < k /\ yield_history.rows[j].date > yield_history.rows[k].date

\* C20: analyze_yield_patterns raises, and returns no decomposition, for a
\* parcel whose yield history has exactly one record.
C20_SingleRecordFails ==
    (op = "analyze_yield_patterns" /\ Cardinality(YieldsOfArgument) = 1) =>
        outcome = "ValueError" /\ returned = NoTable

\* the call raised for a parcel with one yield record while another parcel
\* has several
C20_Witness ==
    /\ op = "analyze_yield_patterns"
    /\ Cardinality(YieldsOfArgument) = 1
    /\ outcome = "ValueError"
    /\ \E p \in Parcels :
        Cardinality({k \in 1..Len(yield_history.rows) :
                        yield_history.rows[k].parcelle_id = p}) >= 2

\* the date of the yield record a row of a decomposition stands for
DateOfLabel(r) ==
    IF returned.index = "date" THEN r.label ELSE yield_history.rows[r.label + 1].date

\* C21: analyze_yield_patterns decomposes the yields of the parcel in the
\* order of their dates, whatever the order of the rows of the yield history,
\* and returns after prepare_features what it returns right after load_data.
C21_ChronologicalOrder ==
    (op = "analyze_yield_patterns" /\ outcome = "ok") =>
        /\ \A i, j \in 1..Len(returned.rows) :
            i < j => DateOfLabel(returned.rows[i]) <= DateOfLabel(returned.rows[j])
        /\ returned = AnalyzeYieldPatternsOn(snapshot.yield, argument).table

\* C22: whenever calculate_risk_metrics returns, every row it returns has a
\* stress_variability and a risk_score that are not null, also the row of a
\* parcel with exactly one row in the feature table.
C22_DefinedScores ==
    (op = "calculate_risk_metrics" /\ outcome = "ok") =>
        \A i \in 1..Len(returned.rows) :
            /\ ~RealIsNull(returned.rows[i].stress_variability)
            /\ ~RealIsNull(returned.rows[i].risk_score)

=============================================================================
